---- MODULE Spec2Model ----
(***************************************************************************)
(* Model of the YouTube transcript service (src/main.py): the identifier   *)
(* normalizer extract_video_id, the pipeline get_yt_dlp_data (yt-dlp       *)
(* subprocess, caption selection, curl subprocess, timed-text parsing,     *)
(* field mapping) and the two /transcript handlers.                        *)
(*                                                                         *)
(* Text the code indexes (the request input, the identifier) is a sequence *)
(* of one-character strings; text the code only builds and passes on       *)
(* (messages, metadata, transcript) is a string.  An Optional[...] field   *)
(* of TranscriptResponse is <<>> for None and <<v>> for the value v.       *)
(***************************************************************************)
EXTENDS Integers, Sequences, FiniteSets, TLC

VARIABLES
    pc,         \* position of the request: "idle", "handler", "yt_dlp", "curl", "done"
    method,     \* "POST" (get_transcript) or "GET" (get_transcript_get)
    input,      \* request.video_id, the raw input
    video_id,   \* the local video_id of get_transcript; <<>> before it is assigned
    children,   \* child processes of the request that are running
    data,       \* the local data of get_yt_dlp_data (json.loads of the tool's stdout)
    events,     \* the external operations of the request, in order
    response    \* what the handler returned or raised; NoResponse before that

vars == <<pc, method, input, video_id, children, data, events, response>>

----------------------------------------------------------------------------
(* Bounds of the model *)

\* number of pieces an input of the normalizer is built of
MaxParts == 4
\* number of pieces an input of a request is built of
MaxReqParts == 2
\* number of resource URLs listed for one caption track
MaxUrls == 2
\* number of <text> elements of a timed-text document
MaxCues == 2
\* number of elements of the tags / categories lists
MaxTags == 2

----------------------------------------------------------------------------
(* Characters and regular expressions (re.search on the three patterns) *)

IdLen == 11

Lower == {"a","b","c","d","e","f","g","h","i","j","k","l","m",
          "n","o","p","q","r","s","t","u","v","w","x","y","z"}
Upper == {"A","B","C","D","E","F","G","H","I","J","K","L","M",
          "N","O","P","Q","R","S","T","U","V","W","X","Y","Z"}
Digit == {"0","1","2","3","4","5","6","7","8","9"}

\* the character class [a-zA-Z0-9_-]
IdChar == Lower \cup Upper \cup Digit \cup {"_", "-"}

Min(S) == CHOOSE m \in S : \A n \in S : m <= n

\* A pattern is the sequence of character sets before its group, and whether
\* it is anchored with ^ and $; the group is always ([a-zA-Z0-9_-]{11}).
patternsSwapped ==
    << [lit |-> << {"y"}, {"o"}, {"u"}, {"t"}, {"u"}, {"."}, {"b"}, {"e"}, {"/"} >>,
        anchored |-> FALSE],
       [lit |-> << {"?", "&"}, {"v"}, {"="} >>, anchored |-> FALSE],
       [lit |-> << >>, anchored |-> TRUE] >>

patterns ==
    << [lit |-> << {"?", "&"}, {"v"}, {"="} >>, anchored |-> FALSE],
       [lit |-> << {"y"}, {"o"}, {"u"}, {"t"}, {"u"}, {"."}, {"b"}, {"e"}, {"/"} >>,
        anchored |-> FALSE],
       [lit |-> << >>, anchored |-> TRUE] >>

\* $ matches at the end of the string and just before a newline that ends it
AtDollar(s, e) ==
    \/ e = Len(s)
    \/ e + 1 = Len(s) /\ s[Len(s)] = "\n"

\* pattern p matches s starting at position i
MatchAt(p, s, i) ==
    LET n == Len(p.lit)
        e == i + n + IdLen - 1
    IN  /\ e <= Len(s)
        /\ \A k \in 1..n : s[i + k - 1] \in p.lit[k]
        /\ \A k \in 1..IdLen : s[i + n + k - 1] \in IdChar
        /\ p.anchored => (i = 1 /\ AtDollar(s, e))

re_searchLast(p, s) ==
    LET M == {i \in 1..Len(s) : MatchAt(p, s, i)}
    IN  IF M = {} THEN 0 ELSE CHOOSE m \in M : \A n \in M : n <= m

\* re.search(p, s): the position of the leftmost match, 0 for no match
re_search(p, s) ==
    LET M == {i \in 1..Len(s) : MatchAt(p, s, i)}
    IN  IF M = {} THEN 0 ELSE Min(M)

\* match.group(1) of the match of p at position i
group1(p, s, i) == SubSeq(s, i + Len(p.lit), i + Len(p.lit) + IdLen - 1)

RECURSIVE try_patterns(_, _, _)
try_patterns(ps, k, url) ==
    IF k > Len(ps) THEN url
    ELSE LET i == re_search(ps[k], url)
         IN  IF i # 0 THEN group1(ps[k], url, i)
             ELSE try_patterns(ps, k + 1, url)

extract_video_id(url) == try_patterns(patterns, 1, url)

----------------------------------------------------------------------------
(* Inputs *)

\* the pieces inputs are built of
Pieces ==
    { << "?", "v", "=" >>,
      << "&", "v", "=" >>,
      << "v", "=" >>,
      << "y", "o", "u", "t", "u", ".", "b", "e", "/" >>,
      << "y", "o", "u", "t", "u", "_", "b", "e", "/" >>,
      << "d", "Q", "w", "4", "w", "9", "W", "g", "X", "c", "Q" >>,
      << "a", "_", "b", "-", "c", "0", "D", "1", "e", "2", "F" >>,
      << "x" >>,
      << "#" >>,
      << "\n" >> }

RECURSIVE Flatten(_)
Flatten(ps) == IF ps = << >> THEN << >> ELSE Head(ps) \o Flatten(Tail(ps))

\* all concatenations of at most n pieces
InputsOf(n) == { Flatten(ps) : ps \in UNION { [1..k -> Pieces] : k \in 0..n } }

----------------------------------------------------------------------------
(* The extraction record: the JSON document of yt-dlp, a dict *)

\* dict.get(key, default)
get(d, k, default) == IF k \in DOMAIN d THEN d[k] ELSE default

\* the first n elements of a list
Prefix(xs, n) == SubSeq(xs, 1, n)

TagValues == << "music", "live", "rock", "80s" >>
CategoryValues == << "Music", "Entertainment", "People", "Film" >>

TextKeys == {"title", "channel", "channel_url", "description", "upload_date", "thumbnail"}
CountKeys == {"duration", "view_count", "like_count"}
ListKeys == {"tags", "categories"}
MetaKeys == TextKeys \cup CountKeys \cup ListKeys

\* the value a metadata key has when the tool reports it
Reported ==
    [title |-> "Never Gonna Give You Up",
     channel |-> "Rick Astley",
     channel_url |-> "https://www.youtube.com/channel/UCuAXFkgsw1L7xaCfnd5JJOw",
     description |-> "The official video",
     upload_date |-> "20091025",
     thumbnail |-> "https://i.ytimg.com/vi/dQw4w9WgXcQ/maxresdefault.jpg",
     duration |-> 212,
     view_count |-> 1500000,
     like_count |-> 17000]

\* the record with the scalar keys S reported, t tags and c categories
\* (a negative number: the list is absent)
Metadata(S, t, c) ==
    [k \in S \cup (IF t >= 0 THEN {"tags"} ELSE {}) \cup (IF c >= 0 THEN {"categories"} ELSE {}) |->
        IF k = "tags" THEN Prefix(TagValues, t)
        ELSE IF k = "categories" THEN Prefix(CategoryValues, c)
        ELSE Reported[k]]

\* every choice of absent / present for the metadata keys
AllMetadata == { Metadata(S, t, c) : S \in SUBSET (TextKeys \cup CountKeys),
                                     t \in -1..MaxTags, c \in -1..MaxTags }

\* the metadata of the records of a request: nothing reported, everything reported
NoMetadata == Metadata({}, -1, -1)
FullMetadata == Metadata(TextKeys \cup CountKeys, MaxTags, 1)

\* the i-th resource URL of a caption track
UrlOf(key, i) == "https://www.youtube.com/api/timedtext?" \o key \o "=" \o ToString(i)

\* a caption track listing n resources
Track(key, n) == [i \in 1..n |-> [ext |-> "srv1", url |-> UrlOf(key, i)]]

\* the values of the key 'subtitles' or 'automatic_captions' when present: no
\* language, another language only, or English with 0..MaxUrls resources
CaptionValues(key) ==
    { [l \in {} |-> << >>] }
    \cup { [l \in {"de"} |-> Track(key, 1)] }
    \cup { [l \in {"en"} |-> Track(key, n)] : n \in 0..MaxUrls }

\* every choice of absent / present for the two caption keys
AllCaptions ==
    { [k \in {} |-> << >>] }
    \cup { [k \in {"subtitles"} |-> s] : s \in CaptionValues("subtitles") }
    \cup { [k \in {"automatic_captions"} |-> a] : a \in CaptionValues("automatic_captions") }
    \cup { [k \in {"subtitles", "automatic_captions"} |-> IF k = "subtitles" THEN s ELSE a] :
              s \in CaptionValues("subtitles"), a \in CaptionValues("automatic_captions") }

\* the union of two dicts with disjoint keys
Merge(d1, d2) == [k \in DOMAIN d1 \cup DOMAIN d2 |-> IF k \in DOMAIN d1 THEN d1[k] ELSE d2[k]]

\* the records the tool returns to a request
Records == { Merge(m, c) : m \in {NoMetadata, FullMetadata}, c \in AllCaptions }

----------------------------------------------------------------------------
(* Child processes: subprocess.run(cmd, capture_output=True, timeout=t) *)

yt_dlp_timeout == 60
curl_timeout == 30

\* the seconds a child may need to finish
RunTimes == {5, 45, 90}

\* subprocess.run raises TimeoutExpired when the child needs longer than timeout
Expires(needed, timeout) == needed > timeout

\* the command of the extraction subprocess
yt_dlp_cmd(vid) ==
    << "yt-dlp", "--dump-json", "--write-subs", "--write-auto-subs",
       "--sub-lang", "en", "--skip-download",
       << "https://www.youtube.com/watch?v=", vid >> >>

\* the command of the caption fetch
curl_cmd(sub_file) == << "curl", "-s", sub_file >>

\* subprocess.run on expiry: the child is killed and waited for before
\* TimeoutExpired is raised
KilledLeftRunning(running, cmd) == running

Killed(running, cmd) == running \ {cmd}

----------------------------------------------------------------------------
(* The caption document: the stdout of curl *)

\* the .text of a <text> element: None for an element without text
CueTexts == { << >>, << "Hello" >>, << "world" >> }

\* what curl prints: not well-formed XML (also: nothing), or a document with
\* its <text> elements in document order
Bodies ==
    { [wellformed |-> FALSE, texts |-> << >>] }
    \cup { [wellformed |-> TRUE, texts |-> t] : t \in UNION { [1..n -> CueTexts] : n \in 0..MaxCues } }

\* curl's exit code is not looked at; a failed fetch prints nothing
CurlResults ==
    { [rc |-> 0, stdout |-> b] : b \in Bodies }
    \cup { [rc |-> 6, stdout |-> [wellformed |-> FALSE, texts |-> << >>]] }

RECURSIVE joinComma(_, _)
joinComma(sep, xs) ==
    IF Len(xs) = 0 THEN ""
    ELSE IF Len(xs) = 1 THEN xs[1]
    ELSE xs[1] \o "," \o joinComma(sep, Tail(xs))

RECURSIVE join(_, _)
\* sep.join(xs) for a list of strings
join(sep, xs) ==
    IF Len(xs) = 0 THEN ""
    ELSE IF Len(xs) = 1 THEN xs[1]
    ELSE xs[1] \o sep \o join(sep, Tail(xs))

Returned(v) == [raised |-> FALSE, value |-> v]
Raised(type, msg) == [raised |-> TRUE, type |-> type, msg |-> msg]

parse_transcriptLenient(stdout) ==
    Returned(join(" ", [i \in 1..Len(stdout.texts) |->
                          IF stdout.texts[i] = << >> THEN "" ELSE stdout.texts[i][1]]))

\* ET.fromstring(stdout), then ' '.join over root.findall('.//text')
parse_transcript(stdout) ==
    IF ~stdout.wellformed
    THEN Raised("ParseError", "no element found: line 1, column 0")
    ELSE LET none == {i \in 1..Len(stdout.texts) : stdout.texts[i] = << >>}
         IN  IF none # {}
             THEN Raised("TypeError", "sequence item " \o ToString(Min(none) - 1)
                                      \o ": expected str instance, NoneType found")
             ELSE Returned(join(" ", [i \in 1..Len(stdout.texts) |-> stdout.texts[i][1]]))

----------------------------------------------------------------------------
(* get_yt_dlp_data after json.loads, and the handlers' responses *)

\* the caption key the if / elif picks, "" for neither
selectAutomaticFirst(d) ==
    IF "automatic_captions" \in DOMAIN d /\ "en" \in DOMAIN d["automatic_captions"]
    THEN "automatic_captions"
    ELSE IF "subtitles" \in DOMAIN d /\ "en" \in DOMAIN d["subtitles"]
    THEN "subtitles"
    ELSE ""

select_track(d) ==
    IF "subtitles" \in DOMAIN d /\ "en" \in DOMAIN d["subtitles"]
    THEN "subtitles"
    ELSE IF "automatic_captions" \in DOMAIN d /\ "en" \in DOMAIN d["automatic_captions"]
    THEN "automatic_captions"
    ELSE ""

\* data[key]['en'][0]['url']
sub_file(d, key) ==
    IF Len(d[key]["en"]) = 0
    THEN Raised("IndexError", "list index out of range")
    ELSE Returned(d[key]["en"][1].url)

\* the dict get_yt_dlp_data returns
build_result(vid, d, transcript) ==
    [videoTitle |-> get(d, "title", ""),
     videoId |-> vid,
     channelName |-> get(d, "channel", ""),
     channelUrl |-> get(d, "channel_url", ""),
     description |-> get(d, "description", ""),
     duration |-> get(d, "duration", 0),
     viewCount |-> get(d, "view_count", 0),
     likeCount |-> get(d, "like_count", 0),
     uploadDate |-> get(d, "upload_date", ""),
     tags |-> join(", ", get(d, "tags", << >>)),
     categories |-> join(", ", get(d, "categories", << >>)),
     thumbnailUrl |-> get(d, "thumbnail", ""),
     transcript |-> transcript,
     length |-> Len(transcript)]

reraiseWrapped(exc) ==
    IF exc.type = "TimeoutExpired" THEN "Request timeout"
    ELSE "Error: " \o exc.msg

\* the except clauses of get_yt_dlp_data: the message of the exception it raises
reraise(exc) ==
    IF exc.type = "TimeoutExpired" THEN "Request timeout"
    ELSE IF exc.type = "JSONDecodeError" THEN "Invalid JSON response from yt-dlp"
    ELSE "Error: " \o exc.msg

NoResponse == [status |-> 0]

\* raise HTTPException(status_code=400, ...), re-raised by except HTTPException
bad_request(vid) ==
    [status |-> 400,
     detail |-> << "Invalid video_id: ", vid, ". Must be 11 characters." >>]

\* return TranscriptResponse(success=True, ...)
success_response(vid, r) ==
    [status |-> 200,
     body |-> [success |-> TRUE,
               videoId |-> vid,
               videoTitle |-> << r.videoTitle >>,
               channelName |-> << r.channelName >>,
               channelUrl |-> << r.channelUrl >>,
               description |-> << r.description >>,
               duration |-> << r.duration >>,
               viewCount |-> << r.viewCount >>,
               likeCount |-> << r.likeCount >>,
               uploadDate |-> << r.uploadDate >>,
               tags |-> << r.tags >>,
               categories |-> << r.categories >>,
               thumbnailUrl |-> << r.thumbnailUrl >>,
               transcript |-> << r.transcript >>,
               length |-> << r.length >>,
               error |-> << >>]]

\* except Exception as e: return TranscriptResponse(success=False, ...)
failure_response(request_video_id, vid, msg) ==
    [status |-> 200,
     body |-> [success |-> FALSE,
               videoId |-> request_video_id,
               videoTitle |-> << >>,
               channelName |-> << >>,
               channelUrl |-> << >>,
               description |-> << >>,
               duration |-> << >>,
               viewCount |-> << >>,
               likeCount |-> << >>,
               uploadDate |-> << >>,
               tags |-> << >>,
               categories |-> << >>,
               thumbnailUrl |-> << >>,
               transcript |-> << >>,
               length |-> << >>,
               error |-> << msg >>]]

----------------------------------------------------------------------------
(* The request *)

\* the inputs of a request
RequestInputs == InputsOf(MaxReqParts)

\* what the tool writes to stderr when it fails
Diagnostics == { "ERROR: [youtube] Video unavailable" }

\* the child the request waits for
Child == CHOOSE c \in children : TRUE

Init ==
    /\ pc = "idle"
    /\ method = ""
    /\ input = << >>
    /\ video_id = << >>
    /\ children = {}
    /\ data = << >>
    /\ events = << >>
    /\ response = NoResponse

\* POST /transcript with a body, or GET /transcript with a query parameter:
\* get_transcript_get builds the same TranscriptRequest and calls get_transcript
Receive ==
    /\ pc = "idle"
    /\ \E m \in {"POST", "GET"}, raw \in RequestInputs :
          /\ method' = m
          /\ input' = raw
    /\ pc' = "handler"
    /\ UNCHANGED <<video_id, children, data, events, response>>

\* if len(video_id) != 11
invalidLonger(vid) == Len(vid) > 11

invalid(vid) == Len(vid) # 11

\* get_transcript up to raise HTTPException
Reject ==
    /\ pc = "handler"
    /\ LET vid == extract_video_id(input)
       IN  /\ invalid(vid)
           /\ video_id' = vid
           /\ response' = bad_request(vid)
    /\ pc' = "done"
    /\ UNCHANGED <<method, input, children, data, events>>

\* get_transcript up to the first subprocess.run of get_yt_dlp_data
StartYtDlp ==
    /\ pc = "handler"
    /\ LET vid == extract_video_id(input)
       IN  /\ ~invalid(vid)
           /\ video_id' = vid
           /\ children' = children \cup {yt_dlp_cmd(vid)}
           /\ events' = Append(events, [ev |-> "start", cmd |-> yt_dlp_cmd(vid)])
    /\ pc' = "yt_dlp"
    /\ UNCHANGED <<method, input, data, response>>

\* the request ends with the failure response for the exception exc
Fail(exc) ==
    /\ response' = failure_response(input, video_id, reraise(exc))
    /\ pc' = "done"

\* the extraction subprocess runs longer than its timeout
YtDlpExpires ==
    /\ pc = "yt_dlp"
    /\ \E t \in RunTimes :
          /\ Expires(t, yt_dlp_timeout)
          /\ events' = Append(events, [ev |-> "expired", cmd |-> Child, secs |-> t])
    /\ children' = Killed(children, Child)
    /\ Fail(Raised("TimeoutExpired", "Command timed out"))
    /\ UNCHANGED <<method, input, video_id, data>>

YtDlpFailsRetry ==
    /\ pc = "yt_dlp"
    /\ \E t \in RunTimes :
          /\ ~Expires(t, yt_dlp_timeout)
          /\ events' = Append(events, [ev |-> "exit", cmd |-> Child, secs |-> t,
                                       rc |-> 1, json |-> FALSE])
    /\ children' = children \ {Child}
    /\ pc' = "handler"
    /\ UNCHANGED <<method, input, video_id, data, response>>

\* the extraction subprocess exits with a non-zero code
YtDlpFails ==
    /\ pc = "yt_dlp"
    /\ \E t \in RunTimes, stderr \in Diagnostics :
          /\ ~Expires(t, yt_dlp_timeout)
          /\ events' = Append(events, [ev |-> "exit", cmd |-> Child, secs |-> t,
                                       rc |-> 1, json |-> FALSE])
          /\ Fail(Raised("Exception", "yt-dlp error: " \o stderr))
    /\ children' = children \ {Child}
    /\ UNCHANGED <<method, input, video_id, data>>

\* the extraction subprocess exits with code 0 and json.loads raises
YtDlpBadJson ==
    /\ pc = "yt_dlp"
    /\ \E t \in RunTimes :
          /\ ~Expires(t, yt_dlp_timeout)
          /\ events' = Append(events, [ev |-> "exit", cmd |-> Child, secs |-> t,
                                       rc |-> 0, json |-> FALSE])
    /\ children' = children \ {Child}
    /\ Fail(Raised("JSONDecodeError", "Expecting value: line 1 column 1 (char 0)"))
    /\ UNCHANGED <<method, input, video_id, data>>

\* the extraction subprocess exits with code 0 and prints the record d:
\* the caption track is selected, and the request goes on to the caption
\* fetch, or ends
YtDlpReturns(d) ==
    /\ pc = "yt_dlp"
    /\ data' = d
    /\ \E t \in RunTimes :
          /\ ~Expires(t, yt_dlp_timeout)
          /\ LET exit == [ev |-> "exit", cmd |-> Child, secs |-> t, rc |-> 0, json |-> TRUE]
                 key == select_track(d)
             IN  IF key = ""
                 THEN /\ events' = Append(events, exit)
                      /\ children' = children \ {Child}
                      /\ response' = success_response(video_id, build_result(video_id, d, ""))
                      /\ pc' = "done"
                 ELSE IF sub_file(d, key).raised
                 THEN /\ events' = Append(events, exit)
                      /\ children' = children \ {Child}
                      /\ Fail(sub_file(d, key))
                 ELSE /\ events' = events \o << exit, [ev |-> "start",
                                                      cmd |-> curl_cmd(sub_file(d, key).value)] >>
                      /\ children' = (children \ {Child}) \cup {curl_cmd(sub_file(d, key).value)}
                      /\ response' = response
                      /\ pc' = "curl"
    /\ UNCHANGED <<method, input, video_id>>

\* ... a record of the request's stub of the tool
YtDlpOk == \E d \in Records : YtDlpReturns(d)

\* the caption fetch runs longer than its timeout
CurlExpires ==
    /\ pc = "curl"
    /\ \E t \in RunTimes :
          /\ Expires(t, curl_timeout)
          /\ events' = Append(events, [ev |-> "expired", cmd |-> Child, secs |-> t])
    /\ children' = Killed(children, Child)
    /\ Fail(Raised("TimeoutExpired", "Command timed out"))
    /\ UNCHANGED <<method, input, video_id, data>>

\* the caption fetch exits: its output is parsed and the response is built
CurlExits ==
    /\ pc = "curl"
    /\ \E t \in RunTimes, res \in CurlResults :
          /\ ~Expires(t, curl_timeout)
          /\ events' = Append(events, [ev |-> "exit", cmd |-> Child, secs |-> t,
                                       rc |-> res.rc, stdout |-> res.stdout])
          /\ LET transcript == parse_transcript(res.stdout)
             IN  IF transcript.raised
                 THEN Fail(transcript)
                 ELSE /\ response' = success_response(video_id,
                                        build_result(video_id, data, transcript.value))
                      /\ pc' = "done"
    /\ children' = children \ {Child}
    /\ UNCHANGED <<method, input, video_id, data>>

Next ==
    \/ Receive
    \/ Reject
    \/ StartYtDlp
    \/ YtDlpExpires
    \/ YtDlpFails
    \/ YtDlpBadJson
    \/ YtDlpOk
    \/ CurlExpires
    \/ CurlExits

Spec == Init /\ [][Next]_vars

----------------------------------------------------------------------------
(* The normalizer on its own: the handler's first step on every input built *)
(* of at most MaxParts pieces                                               *)

InitNorm ==
    /\ pc = "handler"
    /\ method = "POST"
    /\ input \in InputsOf(MaxParts)
    /\ video_id = << >>
    /\ children = {}
    /\ data = << >>
    /\ events = << >>
    /\ response = NoResponse

NextNorm ==
    \/ Reject
    \/ StartYtDlp

SpecNorm == InitNorm /\ [][NextNorm]_vars

----------------------------------------------------------------------------
(* The field mapping on its own: the tool returns a record without caption  *)
(* tracks, with every choice of absent / present metadata                   *)

SampleId == << "d", "Q", "w", "4", "w", "9", "W", "g", "X", "c", "Q" >>

InitAsm ==
    /\ pc = "yt_dlp"
    /\ method \in {"POST", "GET"}
    /\ input = SampleId
    /\ video_id = SampleId
    /\ children = {yt_dlp_cmd(SampleId)}
    /\ data = << >>
    /\ events = << [ev |-> "start", cmd |-> yt_dlp_cmd(SampleId)] >>
    /\ response = NoResponse

YtDlpOkAsm == \E d \in AllMetadata : YtDlpReturns(d)

NextAsm == YtDlpOkAsm

SpecAsm == InitAsm /\ [][NextAsm]_vars

----------------------------------------------------------------------------
(* Vocabulary of the properties *)

\* the request has got past identifier validation or was rejected by it
Validated == pc \in {"yt_dlp", "curl", "done"}

\* the positions of events where program prog was started
StartsOf(prog) == {i \in 1..Len(events) : events[i].ev = "start" /\ events[i].cmd[1] = prog}

\* the URLs the caption fetch was started on, in order
Fetched == [j \in 1..Cardinality(StartsOf("curl")) |->
              LET i == CHOOSE i \in StartsOf("curl") :
                          Cardinality({h \in StartsOf("curl") : h <= i}) = j
              IN  events[i].cmd[3]]

\* the last event of the request is e
LastEvent == events[Len(events)]

\* event e is the tool's exit with code 0 and parseable output
ExtractionOk(e) == e.ev = "exit" /\ e.cmd[1] = "yt-dlp" /\ e.rc = 0 /\ e.json

\* event e is an external operation that failed: a timeout, the tool's
\* non-zero exit or unparseable output, a caption document that cannot be
\* turned into text
CaptionUnusable(b) == ~b.wellformed \/ \E i \in 1..Len(b.texts) : b.texts[i] = << >>
Failed(e) ==
    \/ e.ev = "expired"
    \/ e.ev = "exit" /\ e.cmd[1] = "yt-dlp" /\ ~(e.rc = 0 /\ e.json)
    \/ e.ev = "exit" /\ e.cmd[1] = "curl" /\ CaptionUnusable(e.stdout)

MetadataFields == {"videoTitle", "channelName", "channelUrl", "description", "duration",
                   "viewCount", "likeCount", "uploadDate", "tags", "categories",
                   "thumbnailUrl"}

SuccessShape(b) ==
    /\ b.success
    /\ b.error = << >>
    /\ \A f \in MetadataFields \cup {"transcript", "length"} : Len(b[f]) = 1

FailureShape(b) ==
    /\ ~b.success
    /\ Len(b.error) = 1
    /\ \A f \in MetadataFields \cup {"transcript", "length"} : b[f] = << >>

----------------------------------------------------------------------------
(* C1 *)

\* C1: whenever the normalized identifier of the input has a length other
\* than 11, the request (POST or GET) has ended with HTTP 400, which is not a
\* TranscriptResponse body, and neither the extraction subprocess nor the
\* caption fetch was started.
C1_InvalidLengthIs400 ==
    (Validated /\ Len(extract_video_id(input)) # 11) =>
        /\ pc = "done"
        /\ response.status = 400
        /\ "body" \notin DOMAIN response
        /\ response.detail[2] = extract_video_id(input)
        /\ events = << >>
        /\ children = {}

C1_Witness ==
    /\ pc = "done"
    /\ method = "GET"
    /\ Len(input) > 11
    /\ video_id = input
    /\ response.status = 400

----------------------------------------------------------------------------
(* C2 *)

----------------------------------------------------------------------------
(* C3 *)

\* C3: a child runs into its timeout exactly when it needs more than 60
\* seconds (extraction) or 30 seconds (caption fetch); the request then ends
\* with a 200 response with success false and error "Request timeout", and
\* no child of the request is running when the response is returned.
C3_TimeoutResponse ==
    /\ \A i \in 1..Len(events) :
          (events[i].ev # "start") =>
             (events[i].ev = "expired" <=>
                 events[i].secs > (IF events[i].cmd[1] = "yt-dlp" THEN 60 ELSE 30))
    /\ (pc = "done" /\ events # << >> /\ LastEvent.ev = "expired") =>
          /\ response.status = 200
          /\ ~response.body.success
          /\ response.body.error = << "Request timeout" >>
          /\ children = {}

C3_Witness ==
    /\ pc = "done"
    /\ events # << >>
    /\ LastEvent.ev = "expired"
    /\ LastEvent.cmd[1] = "curl"
    /\ LastEvent.secs = 45
    /\ response.body.error = << "Request timeout" >>

----------------------------------------------------------------------------
(* C4 *)

\* the tool exited with code 0 and its output was not JSON
BadJson == events # << >> /\ LastEvent.ev = "exit" /\ LastEvent.cmd[1] = "yt-dlp"
           /\ LastEvent.rc = 0 /\ ~LastEvent.json

\* C4 as stated: after exit code 0 with unparseable output the response is
\* 200, success false, error "Invalid JSON response", no caption fetch.
C4_AsStated ==
    (pc = "done" /\ BadJson) =>
        /\ response.status = 200
        /\ ~response.body.success
        /\ response.body.error = << "Invalid JSON response" >>
        /\ StartsOf("curl") = {}

\* C4, amended: after exit code 0 with unparseable output the response is
\* 200, success false, error "Invalid JSON response from yt-dlp", and no
\* caption fetch is started.
C4_InvalidJsonResponse ==
    (pc = "done" /\ BadJson) =>
        /\ response.status = 200
        /\ ~response.body.success
        /\ response.body.error = << "Invalid JSON response from yt-dlp" >>
        /\ StartsOf("curl") = {}
        /\ children = {}

C4_Witness ==
    /\ pc = "done"
    /\ BadJson
    /\ FailureShape(response.body)

----------------------------------------------------------------------------
(* C5 *)

HasEnglish(d, key) == key \in DOMAIN d /\ "en" \in DOMAIN d[key]

\* C5: at most one caption fetch is started per request; once the record is
\* there, the fetch is on the first URL of subtitles.en when the record has
\* subtitles.en (automatic_captions is not used then, not even when
\* subtitles.en lists no URL), else on the first URL of
\* automatic_captions.en when the record has that, and with neither no fetch
\* is started and the response is a success with transcript "" and length 0.
C5_OrderedLookup ==
    /\ Cardinality(StartsOf("curl")) <= 1
    /\ (\E i \in 1..Len(events) : ExtractionOk(events[i])) =>
          IF HasEnglish(data, "subtitles")
          THEN Fetched = [i \in 1..(IF Len(data["subtitles"]["en"]) > 0 THEN 1 ELSE 0) |->
                              data["subtitles"]["en"][1].url]
          ELSE IF HasEnglish(data, "automatic_captions")
          THEN Fetched = [i \in 1..(IF Len(data["automatic_captions"]["en"]) > 0 THEN 1 ELSE 0) |->
                              data["automatic_captions"]["en"][1].url]
          ELSE /\ Fetched = << >>
               /\ pc = "done"
               /\ response.status = 200
               /\ response.body.success
               /\ response.body.transcript = << "" >>
               /\ response.body.length = << 0 >>
    /\ (~\E i \in 1..Len(events) : ExtractionOk(events[i])) => Fetched = << >>

C5_Witness ==
    /\ pc = "done"
    /\ HasEnglish(data, "subtitles")
    /\ HasEnglish(data, "automatic_captions")
    /\ Len(data["subtitles"]["en"]) = 2
    /\ Len(data["automatic_captions"]["en"]) > 0
    /\ Fetched = << UrlOf("subtitles", 1) >>
    /\ response.body.success

----------------------------------------------------------------------------
(* C6 *)

\* C6: every TranscriptResponse, successful or failed, has in videoId the
\* normalized 11-character identifier of the request input.
C6_VideoIdIsNormalized ==
    (pc = "done" /\ response.status = 200) =>
        /\ Len(response.body.videoId) = 11
        /\ response.body.videoId = extract_video_id(input)

----------------------------------------------------------------------------
(* C7, C8 *)

\* s has 11 id-characters from position i on
IdAt(s, i) == i >= 1 /\ i + 10 <= Len(s) /\ \A k \in 0..10 : s[i + k] \in IdChar

\* s has ?v= or &v= at position i, followed by 11 id-characters
QueryAt(s, i) ==
    /\ i + 2 <= Len(s)
    /\ s[i] \in {"?", "&"}
    /\ s[i + 1] = "v"
    /\ s[i + 2] = "="
    /\ IdAt(s, i + 3)

\* s has youtu.be/ at position i, followed by 11 id-characters
ShortLinkAt(s, i) ==
    /\ i >= 1
    /\ i + 8 <= Len(s)
    /\ SubSeq(s, i, i + 8) = << "y", "o", "u", "t", "u", ".", "b", "e", "/" >>
    /\ IdAt(s, i + 9)

Queries(s) == {i \in 1..Len(s) : QueryAt(s, i)}
ShortLinks(s) == {i \in 1..Len(s) : ShortLinkAt(s, i)}

\* s is 11 id-characters from ^ to $ ($ also matches before a final newline)
Bare(s) == IdAt(s, 1) /\ (Len(s) = 11 \/ (Len(s) = 12 /\ s[12] = "\n"))

EndsInShortLink(s) == ShortLinkAt(s, Len(s) - 19)

\* C8 as stated: for an input ending in youtu.be/ and 11 id-characters the
\* result is those 11 characters, whatever comes before.
C8_AsStated ==
    (Validated /\ EndsInShortLink(input)) =>
        video_id = SubSeq(input, Len(input) - 10, Len(input))

\* C8, amended: for an input with youtu.be/ followed by 11 id-characters and
\* without [?&]v= followed by 11 id-characters, the result is the 11
\* characters after the leftmost such youtu.be/; these are the last 11
\* characters of an input that ends in its only short link.
C8_ShortLink ==
    (Validated /\ ShortLinks(input) # {} /\ Queries(input) = {}) =>
        /\ video_id = SubSeq(input, Min(ShortLinks(input)) + 9, Min(ShortLinks(input)) + 19)
        /\ (EndsInShortLink(input) /\ Cardinality(ShortLinks(input)) = 1) =>
              video_id = SubSeq(input, Len(input) - 10, Len(input))

C8_Witness ==
    /\ Validated
    /\ Queries(input) = {}
    /\ Cardinality(ShortLinks(input)) = 2
    /\ EndsInShortLink(input)
    /\ video_id = SubSeq(input, 10, 20)
    /\ video_id # SubSeq(input, Len(input) - 10, Len(input))

----------------------------------------------------------------------------
(* C9 *)

\* ", ".join of the first n tags, of the first n categories
JoinedTags == << "music", "music, live", "music, live, rock", "music, live, rock, 80s" >>
JoinedCategories == << "Music", "Music, Entertainment", "Music, Entertainment, People",
                       "Music, Entertainment, People, Film" >>

\* C9: a record without caption tracks, with any choice of absent / present
\* metadata, gives a success response: a text field, the date and the
\* thumbnail are the record's value or "", duration and the counts are the
\* record's value or 0, tags and categories are the elements joined with
\* ", " ("" for an absent or empty list); never a failure response.
C9_FieldMapping ==
    (pc = "done" /\ events # << >> /\ ExtractionOk(LastEvent)
        /\ DOMAIN data \subseteq MetaKeys) =>
        /\ response.status = 200
        /\ response.body.success
        /\ response.body.error = << >>
        /\ \A p \in { <<"videoTitle", "title">>, <<"channelName", "channel">>,
                      <<"channelUrl", "channel_url">>, <<"description", "description">>,
                      <<"uploadDate", "upload_date">>, <<"thumbnailUrl", "thumbnail">> } :
              response.body[p[1]] = << IF p[2] \in DOMAIN data THEN Reported[p[2]] ELSE "" >>
        /\ \A p \in { <<"duration", "duration">>, <<"viewCount", "view_count">>,
                      <<"likeCount", "like_count">> } :
              response.body[p[1]] = << IF p[2] \in DOMAIN data THEN Reported[p[2]] ELSE 0 >>
        /\ response.body.tags =
              << IF "tags" \in DOMAIN data /\ Len(data["tags"]) > 0
                 THEN JoinedTags[Len(data["tags"])] ELSE "" >>
        /\ response.body.categories =
              << IF "categories" \in DOMAIN data /\ Len(data["categories"]) > 0
                 THEN JoinedCategories[Len(data["categories"])] ELSE "" >>
        /\ response.body.transcript = << "" >>
        /\ response.body.length = << 0 >>

C9_Witness ==
    /\ pc = "done"
    /\ "tags" \in DOMAIN data
    /\ data["tags"] = << "music", "live" >>
    /\ "categories" \in DOMAIN data
    /\ data["categories"] = << >>
    /\ "title" \notin DOMAIN data
    /\ "duration" \notin DOMAIN data
    /\ "view_count" \in DOMAIN data
    /\ response.body.tags = << "music, live" >>
    /\ response.body.categories = << "" >>
    /\ response.body.videoTitle = << "" >>
    /\ response.body.duration = << 0 >>

----------------------------------------------------------------------------
(* C10 *)

\* C10: the extraction subprocess is started at most once; a caption fetch
\* is started only right after the extraction's exit with code 0 and
\* parseable JSON; at most one child is running at any time; and a failed
\* external operation is the last event of the request: the response is
\* there and nothing is running.
C10_Sequential ==
    /\ Cardinality(StartsOf("yt-dlp")) <= 1
    /\ Cardinality(children) <= 1
    /\ \A i \in StartsOf("curl") : i > 1 /\ ExtractionOk(events[i - 1])
    /\ \A i \in StartsOf("curl") : \E j \in StartsOf("yt-dlp") : j < i
    /\ \A i \in 1..Len(events) :
          Failed(events[i]) => (i = Len(events) /\ pc = "done" /\ children = {}
                                /\ response.status = 200 /\ ~response.body.success)
    /\ pc = "done" => children = {}

C10_Witness ==
    /\ pc = "done"
    /\ Len(events) = 4
    /\ events[1].ev = "start" /\ events[1].cmd[1] = "yt-dlp"
    /\ ExtractionOk(events[2])
    /\ events[3].ev = "start" /\ events[3].cmd[1] = "curl"
    /\ Failed(events[4])

====
